---------------------------- MODULE Spec2Model ----------------------------
(***************************************************************************)
(* A model of unpeel (src/src/main.rs): the command-line program that      *)
(* decodes a PNG, walks the chunks of the file a second time to print      *)
(* their metadata, and re-encodes the decoded pixels into a sibling file   *)
(* whose name carries "-unpeeled".                                         *)
(*                                                                         *)
(* Bytes are the integers 0..255, byte strings are sequences of them, and  *)
(* a Rust String is the sequence of its Unicode scalar values.  The file   *)
(* read by the chunk walk is an input: its content is fixed chunk by chunk *)
(* as the walk reaches it (variable rest holds the bytes lying directly    *)
(* ahead of the read position, more whether the file goes on after them).  *)
(***************************************************************************)
EXTENDS Integers, Sequences, FiniteSets, TLC

VARIABLES
    pc,            \* position of main
    exit_code,     \* None while main runs, then Some(0) or Some(1) (exit(1))
    file_path,     \* args[1], a byte string
    out,           \* the lines printed to stdout, in order
    decoder,       \* what the png decoder holds for the opened file
    width, height, color_type, bit_depth, trns,   \* the locals copied from info
    buf,           \* the decoded pixel buffer
    rest,          \* walk: bytes of the file directly ahead of the read position
    more,          \* walk: whether the file goes on after rest
    pos,           \* walk: offset in the file after the last successful read
    iter_start,    \* walk: offset at which the current loop iteration started
    length, chunk_type, data, crc_bytes,   \* the locals of the loop body
    chunks_found,
    nread,         \* number of chunks read completely (length, type, data, crc)
    stop,          \* which break ended the loop
    output_path,   \* the result of create_output_path
    encoder,       \* what write_png_image handed to the png encoder
    input_path     \* argument of a stand-alone call of create_output_path

vars == <<pc, exit_code, file_path, out, decoder, width, height, color_type,
          bit_depth, trns, buf, rest, more, pos, iter_start, length,
          chunk_type, data, crc_bytes, chunks_found, nread, stop,
          output_path, encoder, input_path>>

(* Bounds of the model. *)
MaxChunks == 2
MaxPathLen == 4

\* Option<T>: None is the empty sequence, Some(x) the sequence of x alone
None == <<>>
Some(x) == <<x>>
Unwrap(o) == o[1]

Min(a, b) == IF a < b THEN a ELSE b
Max(a, b) == IF a > b THEN a ELSE b

Drop(s, n) == SubSeq(s, n + 1, Len(s))
Take(s, n) == SubSeq(s, 1, Min(n, Len(s)))

(***************************************************************************)
(* Byte strings of the program text.                                       *)
(***************************************************************************)
png_signature == <<137, 80, 78, 71, 13, 10, 26, 10>>
tEXt == <<116, 69, 88, 116>>
zTXt == <<122, 84, 88, 116>>
iTXt == <<105, 84, 88, 116>>
pHYs == <<112, 72, 89, 115>>
tIME == <<116, 73, 77, 69>>
gAMA == <<103, 65, 77, 65>>
cHRM == <<99, 72, 82, 77>>
sRGB == <<115, 82, 71, 66>>
iCCP == <<105, 67, 67, 80>>
IEND == <<73, 69, 78, 68>>
Unpeeled == <<45, 117, 110, 112, 101, 101, 108, 101, 100>>
Slash == 47
Dot == 46

(***************************************************************************)
(* u32::from_be_bytes and u16::from_be_bytes.                              *)
(***************************************************************************)
u32_from_be_bytes(b) == b[1] * 16777216 + b[2] * 65536 + b[3] * 256 + b[4]
u16_from_be_bytes(b) == b[1] * 256 + b[2]

(***************************************************************************)
(* String::from_utf8_lossy: the scalar values of the valid UTF-8 sequences *)
(* of the bytes, with U+FFFD for every maximal invalid part.               *)
(***************************************************************************)
REPLACEMENT_CHARACTER == 65533

IsCont(b, i, lo, hi) == i <= Len(b) /\ b[i] >= lo /\ b[i] <= hi

\* [n |-> bytes used, cp |-> scalar value] for the sequence starting at b[i]
Utf8Step(b, i) ==
    LET b0 == b[i]
        bad(n) == [n |-> n, cp |-> REPLACEMENT_CHARACTER]
    IN  IF b0 < 128 THEN [n |-> 1, cp |-> b0]
        ELSE IF b0 >= 194 /\ b0 <= 223 THEN
            IF IsCont(b, i + 1, 128, 191)
            THEN [n |-> 2, cp |-> (b0 - 192) * 64 + (b[i + 1] - 128)]
            ELSE bad(1)
        ELSE IF b0 >= 224 /\ b0 <= 239 THEN
            LET lo == IF b0 = 224 THEN 160 ELSE 128
                hi == IF b0 = 237 THEN 159 ELSE 191
            IN  IF ~IsCont(b, i + 1, lo, hi) THEN bad(1)
                ELSE IF ~IsCont(b, i + 2, 128, 191) THEN bad(2)
                ELSE [n |-> 3, cp |-> (b0 - 224) * 4096 + (b[i + 1] - 128) * 64
                                      + (b[i + 2] - 128)]
        ELSE IF b0 >= 240 /\ b0 <= 244 THEN
            LET lo == IF b0 = 240 THEN 144 ELSE 128
                hi == IF b0 = 244 THEN 143 ELSE 191
            IN  IF ~IsCont(b, i + 1, lo, hi) THEN bad(1)
                ELSE IF ~IsCont(b, i + 2, 128, 191) THEN bad(2)
                ELSE IF ~IsCont(b, i + 3, 128, 191) THEN bad(3)
                ELSE [n |-> 4, cp |-> (b0 - 240) * 262144 + (b[i + 1] - 128) * 4096
                                      + (b[i + 2] - 128) * 64 + (b[i + 3] - 128)]
        ELSE bad(1)

RECURSIVE Utf8From(_, _)
Utf8From(b, i) ==
    IF i > Len(b) THEN <<>>
    ELSE LET s == Utf8Step(b, i) IN <<s.cp>> \o Utf8From(b, i + s.n)

from_utf8_lossy(b) == Utf8From(b, 1)

(***************************************************************************)
(* The UTF-8 bytes of a String, as println! and PathBuf::from write them.  *)
(***************************************************************************)
EncodeChar(c) ==
    IF c < 128 THEN <<c>>
    ELSE IF c < 2048 THEN <<192 + (c \div 64), 128 + (c % 64)>>
    ELSE IF c < 65536 THEN
        <<224 + (c \div 4096), 128 + ((c \div 64) % 64), 128 + (c % 64)>>
    ELSE <<240 + (c \div 262144), 128 + ((c \div 4096) % 64),
           128 + ((c \div 64) % 64), 128 + (c % 64)>>

RECURSIVE as_bytes(_)
as_bytes(s) == IF s = <<>> THEN <<>> ELSE EncodeChar(Head(s)) \o as_bytes(Tail(s))

\* OsStr::to_string_lossy followed by the bytes the formatted String holds
to_string_lossy(b) == as_bytes(from_utf8_lossy(b))

(***************************************************************************)
(* std::path on Unix, as far as create_output_path uses it.  A path is the *)
(* byte string of its OsStr.                                               *)
(***************************************************************************)
\* Components::trim_right: separators and "." components at the end of the
\* body are no components (the root and a leading "." stay)
RECURSIVE TrimRight(_)
TrimRight(p) ==
    LET n == Len(p)
    IN  IF n >= 2 /\ p[n] = Slash THEN TrimRight(SubSeq(p, 1, n - 1))
        ELSE IF n >= 2 /\ p[n] = Dot /\ p[n - 1] = Slash
             THEN TrimRight(SubSeq(p, 1, n - 1))
        ELSE p

\* index of the last separator of p, 0 when it has none
RECURSIVE LastSep(_, _)
LastSep(p, i) == IF i = 0 THEN 0 ELSE IF p[i] = Slash THEN i ELSE LastSep(p, i - 1)

\* the bytes of the last component, as Components::next_back parses them
LastComponent(p) ==
    LET t == TrimRight(p) IN Drop(t, LastSep(t, Len(t)))

\* Path::file_name: the last component when it is a normal one
file_name(p) ==
    LET t == TrimRight(p)
        c == LastComponent(p)
    IN  IF c = <<>> \/ c = <<Dot, Dot>> \/ (c = <<Dot>> /\ t = <<Dot>>)
        THEN None ELSE Some(c)

\* Path::parent of a path with a file name: what is left of the last
\* component, trimmed
parent(p) ==
    LET t == TrimRight(p)
        k == LastSep(t, Len(t))
    IN  IF k = 1 THEN <<Slash>> ELSE TrimRight(SubSeq(t, 1, k))

\* index of the last '.' of f, 0 when it has none
RECURSIVE LastDot(_, _)
LastDot(f, i) == IF i = 0 THEN 0 ELSE IF f[i] = Dot THEN i ELSE LastDot(f, i - 1)

\* rsplit_file_at_dot: <<before, after>> of the last '.', each an Option
rsplit_file_at_dot(f) ==
    LET k == LastDot(f, Len(f))
    IN  IF f = <<Dot, Dot>> THEN <<Some(f), None>>
        ELSE IF k = 0 THEN <<None, Some(f)>>
        ELSE IF k = 1 THEN <<Some(f), None>>
        ELSE <<Some(SubSeq(f, 1, k - 1)), Some(Drop(f, k))>>

\* file_name().map(rsplit_file_at_dot).and_then(|(before, after)| before.or(after))
file_stem(p) ==
    IF file_name(p) = None THEN None
    ELSE LET s == rsplit_file_at_dot(Unwrap(file_name(p)))
         IN  IF s[1] # None THEN s[1] ELSE s[2]

\* file_name().map(rsplit_file_at_dot).and_then(|(before, after)| before.and(after))
extension(p) ==
    IF file_name(p) = None THEN None
    ELSE LET s == rsplit_file_at_dot(Unwrap(file_name(p)))
         IN  IF s[1] # None THEN s[2] ELSE None

\* PathBuf::push of a relative name
push(b, name) ==
    IF b # <<>> /\ b[Len(b)] # Slash THEN b \o <<Slash>> \o name ELSE b \o name

\* PathBuf::set_file_name: pop the file name, if any, and push the new one
set_file_name(p, name) ==
    push(IF file_name(p) # None THEN parent(p) ELSE p, name)

\* a plausible slip: "-unpeeled" appended after the extension
create_output_path_after_extension(p) ==
    IF file_stem(p) # None
    THEN set_file_name(p, to_string_lossy(Unwrap(file_name(p))) \o Unpeeled)
    ELSE to_string_lossy(p) \o Unpeeled

create_output_path(p) ==
    IF file_stem(p) # None THEN
        IF extension(p) # None
        THEN set_file_name(p, to_string_lossy(Unwrap(file_stem(p))) \o Unpeeled
                              \o <<Dot>> \o to_string_lossy(Unwrap(extension(p))))
        ELSE set_file_name(p, to_string_lossy(Unwrap(file_stem(p))) \o Unpeeled)
    ELSE to_string_lossy(p) \o Unpeeled

(***************************************************************************)
(* The match on chunk_type of the loop body: the lines it prints for a     *)
(* chunk.  A line is a record of the values that println! formats.         *)
(***************************************************************************)
\* data.iter().position(|&b| b == 0), counted from 1; 0 for None
RECURSIVE position(_, _)
position(d, i) ==
    IF i > Len(d) THEN 0 ELSE IF d[i] = 0 THEN i ELSE position(d, i + 1)

\* a plausible slip: the split at the last 0x00 (rposition)
RECURSIVE rposition(_, _)
rposition(d, i) ==
    IF i = 0 THEN 0 ELSE IF d[i] = 0 THEN i ELSE rposition(d, i - 1)

null_pos_last(d) == rposition(d, Len(d))

null_pos(d) == position(d, 1)

rendering_intent(b) ==
    CASE b = 0 -> "Perceptual"
      [] b = 1 -> "Relative colorimetric"
      [] b = 2 -> "Saturation"
      [] b = 3 -> "Absolute colorimetric"
      [] OTHER -> "Unknown"

text_lines(d) ==
    LET k == null_pos(d)
    IN  IF k = 0 THEN <<>>
        ELSE <<[line |-> "tEXt chunk",
                keyword |-> from_utf8_lossy(SubSeq(d, 1, k - 1)),
                text |-> from_utf8_lossy(Drop(d, k))]>>

ztxt_lines(d) ==
    LET k == null_pos(d)
    IN  IF k = 0 \/ ~(Len(d) > k) THEN <<>>
        ELSE <<[line |-> "zTXt chunk",
                keyword |-> from_utf8_lossy(SubSeq(d, 1, k - 1)),
                method |-> d[k + 1]]>>

itxt_lines(d) ==
    LET k == null_pos(d)
    IN  IF k = 0 THEN <<>>
        ELSE <<[line |-> "iTXt chunk",
                keyword |-> from_utf8_lossy(SubSeq(d, 1, k - 1))]>>

phys_lines(d) ==
    IF Len(d) >= 9
    THEN <<[line |-> "pHYs chunk",
            x |-> u32_from_be_bytes(SubSeq(d, 1, 4)),
            y |-> u32_from_be_bytes(SubSeq(d, 5, 8)),
            unit |-> IF d[9] = 1 THEN "meter" ELSE "unknown"]>>
    ELSE <<>>

time_lines(d) ==
    IF Len(d) >= 7
    THEN <<[line |-> "tIME chunk", year |-> u16_from_be_bytes(SubSeq(d, 1, 2)),
            month |-> d[3], day |-> d[4], hour |-> d[5], minute |-> d[6],
            second |-> d[7]]>>
    ELSE <<>>

\* gamma as f64 / 100000.0 is kept as the pair it is computed from
gama_lines(d) ==
    IF Len(d) >= 4
    THEN <<[line |-> "gAMA chunk", gamma |-> u32_from_be_bytes(SubSeq(d, 1, 4)),
            per |-> 100000]>>
    ELSE <<>>

\* a plausible slip: the minimum of cHRM off by one
chrm_lines_off_by_one(d) ==
    IF Len(d) >= 31 THEN <<[line |-> "cHRM chunk"]>> ELSE <<>>

chrm_lines(d) ==
    IF Len(d) >= 32 THEN <<[line |-> "cHRM chunk"]>> ELSE <<>>

srgb_lines(d) ==
    IF d # <<>>
    THEN <<[line |-> "sRGB chunk", intent |-> rendering_intent(d[1])]>>
    ELSE <<>>

iccp_lines(d) ==
    LET k == null_pos(d)
    IN  IF k = 0 \/ ~(Len(d) > k) THEN <<>>
        ELSE <<[line |-> "iCCP chunk",
                profile_name |-> from_utf8_lossy(SubSeq(d, 1, k - 1))],
               [line |-> "  Compression method", method |-> d[k + 1]],
               [line |-> "  Profile size", bytes |-> Len(d) - (k - 1) - 2]>>

other_lines(t, d) ==
    <<[line |-> "Other chunk", name |-> from_utf8_lossy(t), bytes |-> Len(d)]>>

\* the lines of one pass through the match, for every arm but IEND's break
detail_lines(t, d) ==
    CASE t = tEXt -> text_lines(d)
      [] t = zTXt -> ztxt_lines(d)
      [] t = iTXt -> itxt_lines(d)
      [] t = pHYs -> phys_lines(d)
      [] t = tIME -> time_lines(d)
      [] t = gAMA -> gama_lines(d)
      [] t = cHRM -> chrm_lines(d)
      [] t = sRGB -> srgb_lines(d)
      [] t = iCCP -> iccp_lines(d)
      [] OTHER -> other_lines(t, d)

ChunkLineNames ==
    {"tEXt chunk", "zTXt chunk", "iTXt chunk", "pHYs chunk", "tIME chunk",
     "gAMA chunk", "cHRM chunk", "sRGB chunk", "iCCP chunk",
     "  Compression method", "  Profile size", "Other chunk"}

IsChunkLine(l) == l.line \in ChunkLineNames

\* the lines of out that the chunk walk's match printed
chunk_lines(o) == SelectSeq(o, IsChunkLine)

(***************************************************************************)
(* Inputs.  The decoder (png crate) and the file system are outside the    *)
(* program: what they return is drawn from these sets.                     *)
(***************************************************************************)
Str_image_png == <<105, 109, 97, 103, 101, 46, 112, 110, 103>>
Str_data == <<100, 97, 116, 97>>
Str_dir_photo_png == <<100, 105, 114, 47, 112, 104, 111, 116, 111, 46, 112, 110, 103>>
Str_Author_Jane == <<65, 117, 116, 104, 111, 114, 0, 74, 97, 110, 101>>

ArgPaths == {Str_image_png}

\* what Decoder::read_info and next_frame yield: header fields and pixels
Images ==
    {[width |-> 2, height |-> 1, color_type |-> "Grayscale", bit_depth |-> 8,
      trns |-> None, frame |-> <<100, 255>>],
     [width |-> 1, height |-> 1, color_type |-> "Rgb", bit_depth |-> 8,
      trns |-> Some(<<0, 0, 0, 100, 0, 255>>), frame |-> <<0, 100, 255>>],
     [width |-> 1, height |-> 1, color_type |-> "Rgba", bit_depth |-> 8,
      trns |-> Some(<<0, 7>>), frame |-> <<100, 100, 100, 7>>]}

\* Info::bytes_per_pixel for 8-bit samples
samples(ct) ==
    CASE ct = "Grayscale" -> 1
      [] ct = "Rgb" -> 3
      [] ct = "Indexed" -> 1
      [] ct = "GrayscaleAlpha" -> 2
      [] ct = "Rgba" -> 4

bytes_per_pixel == samples(color_type) * ((bit_depth + 7) \div 8)

\* u32::to_be_bytes, the layout of a length field in the file
to_be_bytes(n) ==
    <<n \div 16777216, (n \div 65536) % 256, (n \div 256) % 256, n % 256>>

Zeros(n) == [i \in 1..n |-> 0]

\* the chunks a file may hold: a type tag and its data
Catalogue ==
    {[tag |-> tEXt, data |-> Str_Author_Jane],
     [tag |-> tEXt, data |-> <<65, 0>>],
     [tag |-> tEXt, data |-> <<65, 0, 66, 0, 67>>],
     [tag |-> tEXt, data |-> <<65, 66>>],
     [tag |-> tEXt, data |-> <<>>],
     [tag |-> tEXt, data |-> <<255, 0, 195, 169>>],
     [tag |-> tEXt, data |-> <<0, 226, 130>>],
     [tag |-> zTXt, data |-> <<65, 0, 0, 120>>],
     [tag |-> zTXt, data |-> <<65, 0>>],
     [tag |-> zTXt, data |-> <<65>>],
     [tag |-> iTXt, data |-> <<65, 0, 0>>],
     [tag |-> iTXt, data |-> <<65>>],
     [tag |-> pHYs, data |-> <<0, 0, 0, 72, 0, 0, 0, 72, 1>>],
     [tag |-> pHYs, data |-> <<0, 0, 0, 72, 0, 0, 0, 72>>],
     [tag |-> tIME, data |-> <<7, 232, 12, 31, 23, 59, 58>>],
     [tag |-> tIME, data |-> <<7, 232, 12, 31, 23, 59>>],
     [tag |-> gAMA, data |-> <<0, 0, 154, 124>>],
     [tag |-> gAMA, data |-> <<0, 154, 124>>],
     [tag |-> cHRM, data |-> Zeros(32)],
     [tag |-> cHRM, data |-> Zeros(31)],
     [tag |-> sRGB, data |-> <<1>>],
     [tag |-> sRGB, data |-> <<4>>],
     [tag |-> sRGB, data |-> <<>>],
     [tag |-> iCCP, data |-> <<65, 0, 0, 120, 120>>],
     [tag |-> iCCP, data |-> <<65, 0>>],
     [tag |-> iCCP, data |-> <<65>>],
     [tag |-> IEND, data |-> <<>>],
     [tag |-> <<105, 101, 110, 100>>, data |-> <<>>],
     [tag |-> <<73, 68, 65, 84>>, data |-> <<1>>]}

\* the CRC field of a chunk in the file: any four bytes
CrcInputs(c) ==
    IF c.tag = IEND \/ c.data = Str_Author_Jane
    THEN {<<174, 66, 96, 130>>, <<0, 0, 0, 0>>}
    ELSE {<<174, 66, 96, 130>>}

\* length | type | data | crc
chunk_bytes(c, crc) == to_be_bytes(Len(c.data)) \o c.tag \o c.data \o crc

Prefixes(b) == {SubSeq(b, 1, n) : n \in 0..(Len(b) - 1)}

\* the ways a file may end before a chunk is complete: every cut of one
\* chunk, and a header that claims length=100 with 10 bytes behind it
Tails ==
    Prefixes(chunk_bytes([tag |-> tEXt, data |-> <<65, 0, 66>>], <<0, 0, 0, 0>>))
    \cup {to_be_bytes(100) \o tEXt \o [i \in 1..10 |-> 65]}

\* the first 8 bytes of the file, or fewer when it is shorter
SignatureInputs ==
    {[bytes |-> png_signature, more |-> TRUE],
     [bytes |-> <<255, 216, 255, 224, 0, 16, 74, 70>>, more |-> TRUE],
     [bytes |-> <<137, 80, 78>>, more |-> FALSE],
     [bytes |-> <<>>, more |-> FALSE]}

\* what lies ahead when the walk reaches the start of a chunk: a whole chunk,
\* a cut one, or the end of the file (the only one after MaxChunks chunks)
AheadInputs ==
    IF nread < MaxChunks
    THEN UNION {{[bytes |-> chunk_bytes(c, crc), more |-> TRUE] :
                    crc \in CrcInputs(c)} : c \in Catalogue}
         \cup {[bytes |-> t, more |-> FALSE] : t \in Tails}
    ELSE {[bytes |-> <<>>, more |-> FALSE]}

(***************************************************************************)
(* main                                                                    *)
(***************************************************************************)
imgvars == <<decoder, width, height, color_type, bit_depth, trns, buf>>
walkvars == <<rest, more, pos, iter_start, length, chunk_type, data, crc_bytes,
              chunks_found, nread, stop>>
filevars == <<output_path, encoder>>

Init ==
    /\ pc = "args"
    /\ exit_code = None
    /\ file_path = <<>>
    /\ out = <<>>
    /\ decoder = None
    /\ width = 0 /\ height = 0 /\ color_type = "None" /\ bit_depth = 0
    /\ trns = None
    /\ buf = <<>>
    /\ rest = <<>> /\ more = FALSE /\ pos = 0 /\ iter_start = 0
    /\ length = 0 /\ chunk_type = <<>> /\ data = <<>> /\ crc_bytes = <<>>
    /\ chunks_found = FALSE
    /\ nread = 0
    /\ stop = "None"
    /\ output_path = None
    /\ encoder = None
    /\ input_path = <<>>

\* std::process::exit(1)
Exit1 == pc' = "done" /\ exit_code' = Some(1)

\* the argument count check
CheckArgs ==
    /\ pc = "args"
    /\ \E argc \in {1, 2, 3} :
          IF argc # 2
          THEN Exit1 /\ UNCHANGED file_path
          ELSE \E p \in ArgPaths :
                  file_path' = p /\ pc' = "exists" /\ UNCHANGED exit_code
    /\ UNCHANGED <<out, imgvars, walkvars, filevars, input_path>>

CheckExists ==
    /\ pc = "exists"
    /\ \/ Exit1
       \/ pc' = "fs_metadata" /\ UNCHANGED exit_code
    /\ UNCHANGED <<file_path, out, imgvars, walkvars, filevars, input_path>>

\* the file system block; the values printed are the file system's
PrintFsMetadata ==
    /\ pc = "fs_metadata"
    /\ out' = out \o <<[line |-> "=== File System Metadata ==="],
                       [line |-> "=== PNG Image Metadata ==="]>>
    /\ pc' = "open"
    /\ UNCHANGED <<exit_code, file_path, imgvars, walkvars, filevars, input_path>>

OpenInput ==
    /\ pc = "open"
    /\ \/ Exit1
       \/ pc' = "read_info" /\ UNCHANGED exit_code
    /\ UNCHANGED <<file_path, out, imgvars, walkvars, filevars, input_path>>

\* Decoder::read_info and the copies of the info fields
ReadInfo ==
    /\ pc = "read_info"
    /\ \/ Exit1 /\ UNCHANGED imgvars
       \/ \E img \in Images :
             /\ decoder' = Some(img)
             /\ width' = img.width /\ height' = img.height
             /\ color_type' = img.color_type /\ bit_depth' = img.bit_depth
             /\ trns' = img.trns
             /\ pc' = "next_frame"
             /\ UNCHANGED <<exit_code, buf>>
    /\ UNCHANGED <<file_path, out, walkvars, filevars, input_path>>

\* the buffer of width * height * bytes_per_pixel bytes and Reader::next_frame
NextFrame ==
    /\ pc = "next_frame"
    /\ \/ Exit1 /\ UNCHANGED buf
       \/ /\ Len(Unwrap(decoder).frame) = width * height * bytes_per_pixel
          /\ buf' = Unwrap(decoder).frame
          /\ pc' = "print_info"
          /\ UNCHANGED exit_code
    /\ UNCHANGED <<file_path, out, decoder, width, height, color_type, bit_depth,
                   trns, walkvars, filevars, input_path>>

PrintImageInfo ==
    /\ pc = "print_info"
    /\ out' = out
              \o <<[line |-> "Width", value |-> width],
                   [line |-> "Height", value |-> height],
                   [line |-> "Color type", value |-> color_type],
                   [line |-> "Bit depth", value |-> bit_depth],
                   [line |-> "Bytes per pixel", value |-> bytes_per_pixel]>>
              \o (IF trns # None
                  THEN <<[line |-> "Transparency", value |-> Unwrap(trns)]>>
                  ELSE <<>>)
              \o <<[line |-> "=== PNG Chunks (Metadata) ==="]>>
    /\ pc' = "reopen"
    /\ UNCHANGED <<exit_code, file_path, imgvars, walkvars, filevars, input_path>>

\* the second File::open, for the chunk walk
ReopenFile ==
    /\ pc = "reopen"
    /\ \/ Exit1
       \/ pc' = "signature" /\ UNCHANGED exit_code
    /\ UNCHANGED <<file_path, out, imgvars, walkvars, filevars, input_path>>

\* Read::read_exact of n bytes from the bytes b that are left: it succeeds
\* when b has n bytes, and when it fails it has read the file to its end
read_exact_ok(b, n) == Len(b) >= n

\* a plausible slip: a signature mismatch treated as fatal
ReadSignatureStrict ==
    /\ pc = "signature"
    /\ \E s \in SignatureInputs :
          /\ more' = s.more
          /\ IF Len(s.bytes) >= 8
             THEN /\ rest' = Drop(s.bytes, 8)
                  /\ pos' = 8
                  /\ IF Take(s.bytes, 8) # png_signature
                     THEN Exit1 /\ UNCHANGED out
                     ELSE pc' = "read_length" /\ UNCHANGED <<out, exit_code>>
             ELSE /\ rest' = <<>>
                  /\ pos' = Len(s.bytes)
                  /\ out' = Append(out, [line |-> "Could not read PNG signature."])
                  /\ pc' = "read_length" /\ UNCHANGED exit_code
    /\ chunks_found' = FALSE
    /\ UNCHANGED <<file_path, imgvars, iter_start, length, chunk_type,
                   data, crc_bytes, nread, stop, filevars, input_path>>

ReadSignature ==
    /\ pc = "signature"
    /\ \E s \in SignatureInputs :
          /\ more' = s.more
          /\ IF Len(s.bytes) >= 8
             THEN /\ rest' = Drop(s.bytes, 8)
                  /\ pos' = 8
                  /\ out' = IF Take(s.bytes, 8) # png_signature
                            THEN Append(out, [line |-> "Warning: File does not have a valid PNG signature."])
                            ELSE out
             ELSE /\ rest' = <<>>
                  /\ pos' = Len(s.bytes)
                  /\ out' = Append(out, [line |-> "Could not read PNG signature."])
    /\ chunks_found' = FALSE
    /\ pc' = "read_length"
    /\ UNCHANGED <<exit_code, file_path, imgvars, iter_start, length, chunk_type,
                   data, crc_bytes, nread, stop, filevars, input_path>>

\* a break out of the loop after a failed read_exact
ShortRead(where) ==
    /\ pos' = pos + Len(rest)
    /\ rest' = <<>>
    /\ more' = FALSE
    /\ stop' = where
    /\ pc' = "after_loop"

\* let mut length_bytes = [0u8; 4]; read_exact; u32::from_be_bytes
ReadLengthFrom(b, m) ==
    /\ iter_start' = pos
    /\ IF read_exact_ok(b, 4)
       THEN /\ length' = u32_from_be_bytes(Take(b, 4))
            /\ rest' = Drop(b, 4)
            /\ more' = m
            /\ pos' = pos + 4
            /\ pc' = "read_type"
            /\ UNCHANGED stop
       ELSE /\ pos' = pos + Len(b)
            /\ rest' = <<>>
            /\ more' = FALSE
            /\ stop' = "length"
            /\ pc' = "after_loop"
            /\ UNCHANGED length

\* the top of the loop: when nothing of the file is fixed ahead and the file
\* goes on, the input fixes the next bytes
ReadLength ==
    /\ pc = "read_length"
    /\ IF rest = <<>> /\ more
       THEN \E a \in AheadInputs : ReadLengthFrom(a.bytes, a.more)
       ELSE ReadLengthFrom(rest, more)
    /\ UNCHANGED <<exit_code, file_path, out, imgvars, chunk_type, data,
                   crc_bytes, chunks_found, nread, filevars, input_path>>

ReadType ==
    /\ pc = "read_type"
    /\ IF read_exact_ok(rest, 4)
       THEN /\ chunk_type' = Take(rest, 4)
            /\ rest' = Drop(rest, 4)
            /\ pos' = pos + 4
            /\ pc' = "read_data"
            /\ UNCHANGED <<more, stop>>
       ELSE ShortRead("type") /\ UNCHANGED chunk_type
    /\ UNCHANGED <<exit_code, file_path, out, imgvars, iter_start, length, data,
                   crc_bytes, chunks_found, nread, filevars, input_path>>

\* a plausible slip: file.read in place of read_exact, a short read accepted
data_read_partial(b, n) == TRUE

\* let mut data = vec![0u8; length]; file.read_exact(&mut data)
data_read_ok(b, n) == read_exact_ok(b, n)

ReadData ==
    /\ pc = "read_data"
    /\ IF data_read_ok(rest, length)
       THEN /\ data' = Take(rest, length)
            /\ rest' = Drop(rest, Min(length, Len(rest)))
            /\ pos' = pos + Min(length, Len(rest))
            /\ pc' = "read_crc"
            /\ UNCHANGED <<more, stop>>
       ELSE ShortRead("data") /\ UNCHANGED data
    /\ UNCHANGED <<exit_code, file_path, out, imgvars, iter_start, length,
                   chunk_type, crc_bytes, chunks_found, nread, filevars,
                   input_path>>

\* a plausible slip: the result of the CRC read ignored
ReadCrcUnchecked ==
    /\ pc = "read_crc"
    /\ crc_bytes' = Take(rest, 4)
    /\ rest' = Drop(rest, Min(4, Len(rest)))
    /\ pos' = pos + Min(4, Len(rest))
    /\ chunks_found' = TRUE
    /\ nread' = IF Len(rest) >= 4 THEN nread + 1 ELSE nread
    /\ pc' = "dispatch"
    /\ UNCHANGED <<exit_code, file_path, out, imgvars, iter_start, length,
                   chunk_type, data, more, stop, filevars, input_path>>

\* a plausible slip: the CRC left unread
ReadCrcSkipped ==
    /\ pc = "read_crc"
    /\ chunks_found' = TRUE
    /\ nread' = nread + 1
    /\ pc' = "dispatch"
    /\ UNCHANGED <<exit_code, file_path, out, imgvars, iter_start, length,
                   chunk_type, data, crc_bytes, rest, pos, more, stop, filevars,
                   input_path>>

\* the CRC read and chunks_found = true
ReadCrc ==
    /\ pc = "read_crc"
    /\ IF read_exact_ok(rest, 4)
       THEN /\ crc_bytes' = Take(rest, 4)
            /\ rest' = Drop(rest, 4)
            /\ pos' = pos + 4
            /\ chunks_found' = TRUE
            /\ nread' = nread + 1
            /\ pc' = "dispatch"
            /\ UNCHANGED <<more, stop>>
       ELSE ShortRead("crc") /\ UNCHANGED <<crc_bytes, chunks_found, nread>>
    /\ UNCHANGED <<exit_code, file_path, out, imgvars, iter_start, length,
                   chunk_type, data, filevars, input_path>>

\* a plausible slip: the IEND arm missing, IEND reported like any other chunk
is_end_marker_never(t) == FALSE

\* the arm b"IEND"
is_end_marker(t) == t = IEND

\* the match on chunk_type; at the end of the body its locals go out of scope
Dispatch ==
    /\ pc = "dispatch"
    /\ IF is_end_marker(chunk_type)
       THEN /\ stop' = "IEND"
            /\ pc' = "after_loop"
            /\ UNCHANGED <<out, length, chunk_type, data, crc_bytes>>
       ELSE /\ out' = out \o detail_lines(chunk_type, data)
            /\ pc' = "read_length"
            /\ length' = 0 /\ chunk_type' = <<>> /\ data' = <<>>
            /\ crc_bytes' = <<>>
            /\ UNCHANGED stop
    /\ UNCHANGED <<exit_code, file_path, imgvars, rest, more, pos, iter_start,
                   chunks_found, nread, filevars, input_path>>

PrintSummary ==
    /\ pc = "after_loop"
    /\ out' = out
              \o (IF ~chunks_found
                  THEN <<[line |-> "No additional metadata chunks found in PNG file."]>>
                  ELSE <<>>)
              \o <<[line |-> "=== Summary ==="],
                   [line |-> "File", value |-> file_path],
                   [line |-> "Dimensions", w |-> width, h |-> height],
                   [line |-> "Color format", color |-> color_type,
                    bits |-> bit_depth]>>
    /\ pc' = "write"
    /\ UNCHANGED <<exit_code, file_path, imgvars, walkvars, filevars, input_path>>

\* write_png_image: what the encoder was given by the time the function
\* returned; fails names the step whose ? returned the error, if any
write_png_image(path, w, h, ct, bd, tr, image_data, fails) ==
    IF fails = "create" THEN None
    ELSE Some([path |-> path, width |-> w, height |-> h, color |-> ct,
               depth |-> bd,
               trns |-> IF tr # None THEN Some(Unwrap(tr)) ELSE None,
               header_written |-> fails # "write_header",
               image_data |-> IF fails = "Ok" THEN Some(image_data) ELSE None])

\* create_output_path, the two lines printed, write_png_image and its match
\* create_output_path(path) for the paths main is run with
OutputPathOf == [p \in ArgPaths |-> create_output_path(p)]

WriteOutput ==
    /\ pc = "write"
    /\ LET path == OutputPathOf[file_path]
       IN  /\ output_path' = Some(path)
           /\ \E fails \in {"Ok", "create", "write_image_data"} :
                 /\ encoder' = write_png_image(path, width, height, color_type,
                                               bit_depth, trns, buf, fails)
                 /\ out' = out
                           \o <<[line |-> "=== Writing Output Image ==="],
                                [line |-> "Output file", value |-> path]>>
                           \o (IF fails = "Ok"
                               THEN <<[line |-> "Successfully wrote image to",
                                       value |-> path]>>
                               ELSE <<>>)
                 /\ exit_code' = Some(IF fails = "Ok" THEN 0 ELSE 1)
    /\ pc' = "done"
    /\ UNCHANGED <<file_path, imgvars, walkvars, input_path>>

Next ==
    \/ CheckArgs
    \/ CheckExists
    \/ PrintFsMetadata
    \/ OpenInput
    \/ ReadInfo
    \/ NextFrame
    \/ PrintImageInfo
    \/ ReopenFile
    \/ ReadSignature
    \/ ReadLength
    \/ ReadType
    \/ ReadData
    \/ ReadCrc
    \/ Dispatch
    \/ PrintSummary
    \/ WriteOutput

Spec == Init /\ [][Next]_vars

\* main runs on one thread with nothing to wait for: it keeps taking steps
FairSpec == Spec /\ WF_vars(Next)

(***************************************************************************)
(* create_output_path on its own, over every short path.                   *)
(***************************************************************************)
PathBytes == {Slash, Dot, 97, 98}

PathInputs ==
    UNION {[1..n -> PathBytes] : n \in 0..MaxPathLen}
    \cup {Str_image_png, Str_data, Str_dir_photo_png}

InitPath ==
    /\ pc = "path_call"
    /\ input_path \in PathInputs
    /\ exit_code = None
    /\ file_path = <<>>
    /\ out = <<>>
    /\ decoder = None
    /\ width = 0 /\ height = 0 /\ color_type = "None" /\ bit_depth = 0
    /\ trns = None
    /\ buf = <<>>
    /\ rest = <<>> /\ more = FALSE /\ pos = 0 /\ iter_start = 0
    /\ length = 0 /\ chunk_type = <<>> /\ data = <<>> /\ crc_bytes = <<>>
    /\ chunks_found = FALSE
    /\ nread = 0
    /\ stop = "None"
    /\ output_path = None
    /\ encoder = None

CallCreateOutputPath ==
    /\ pc = "path_call"
    /\ output_path' = Some(create_output_path(input_path))
    /\ pc' = "path_done"
    /\ UNCHANGED <<exit_code, file_path, out, imgvars, walkvars, encoder,
                   input_path>>

NextPath == CallCreateOutputPath

SpecPath == InitPath /\ [][NextPath]_vars

(***************************************************************************)
(* Properties.                                                             *)
(***************************************************************************)
WalkPcs == {"signature", "read_length", "read_type", "read_data", "read_crc",
            "dispatch"}
ShortStops == {"length", "type", "data", "crc"}

HasLine(o, name) == \E i \in 1..Len(o) : o[i].line = name
NoChunksLine == "No additional metadata chunks found in PNG file."
SignatureWarning == "Warning: File does not have a valid PNG signature."

EligibleChannels(ct) ==
    CASE ct = "Rgb" -> {1, 2, 3}
      [] ct = "Rgba" -> {1, 2, 3}
      [] OTHER -> {1}

Clamp(v) == Max(0, Min(255, v))

\* C1: between decoding and encoding every pixel of an 8-bit image has one
\* eligible channel byte v replaced by max(0, min(255, v + o)), o = +15 or
\* -15, and every other byte of the pixel reaches the encoder unchanged.
C1_NoiseTransformApplied ==
    (encoder # None /\ Unwrap(encoder).image_data # None) =>
        LET w == Unwrap(Unwrap(encoder).image_data)
            bpp == bytes_per_pixel
        IN  /\ Len(w) = Len(buf)
            /\ \A px \in 0..(width * height - 1) :
                  \E c \in EligibleChannels(color_type) :
                     /\ \E o \in {15, -15} :
                           w[px * bpp + c] = Clamp(buf[px * bpp + c] + o)
                     /\ \A k \in (1..bpp) \ {c} :
                           w[px * bpp + k] = buf[px * bpp + k]

\* C2: a short read of the length field, the type tag or the data stops the
\* walk: nothing is printed for the incomplete chunk, the lines of earlier
\* chunks stay, and the run goes on to the summary and the output write.
C2_ShortReadStopsWalk ==
    /\ [][/\ ((pc = "read_length" /\ stop' = "length")
              \/ (pc = "read_type" /\ Len(rest) < 4)
              \/ (pc = "read_data" /\ Len(rest) < length))
             => (out' = out /\ pc' = "after_loop" /\ exit_code' = None)
          /\ stop \in {"length", "type", "data"}
             => (chunk_lines(out') = chunk_lines(out) /\ pos' = pos
                 /\ pc' \in {"write", "done"})]_vars
    /\ [](stop \in {"length", "type", "data"} /\ pc = "done"
          => HasLine(out, "=== Summary ===") /\ output_path # None)

C2_Witness ==
    /\ pc = "done" /\ exit_code = Some(0)
    /\ stop = "data" /\ length = 100 /\ pos = iter_start + 8 + 10
    /\ chunk_lines(out) # <<>>
    /\ HasLine(out, "=== Summary ===")

C4_IendTerminatesWalk ==
    [][/\ (pc = "dispatch" /\ chunk_type = IEND)
          => (out' = out /\ pc' = "after_loop" /\ stop' = "IEND")
       /\ (pc = "dispatch" /\ chunk_type # IEND)
          => (pc' = "read_length" /\ stop' = "None")
       /\ stop = "IEND"
          => (chunk_lines(out') = chunk_lines(out) /\ pos' = pos
              /\ nread' = nread /\ more' = more
              /\ pc' \in {"write", "done"})]_vars

C4_Witness ==
    /\ pc = "done" /\ stop = "IEND"
    /\ nread = 2 /\ Len(chunk_lines(out)) = 1
    /\ more

NoNull(d) == \A i \in 1..Len(d) : d[i] # 0
FirstNull(d) == CHOOSE i \in 1..Len(d) : d[i] = 0 /\ \A j \in 1..(i - 1) : d[j] # 0

TooShort(t, d) ==
    \/ t = pHYs /\ Len(d) < 9
    \/ t = tIME /\ Len(d) < 7
    \/ t = gAMA /\ Len(d) < 4
    \/ t = cHRM /\ Len(d) < 32
    \/ t = sRGB /\ Len(d) < 1
    \/ t \in {tEXt, zTXt, iTXt, iCCP} /\ NoNull(d)
    \/ t \in {zTXt, iCCP} /\ ~NoNull(d) /\ FirstNull(d) = Len(d)

\* C5: a completely read chunk whose data is shorter than its type's minimum
\* prints nothing and does not stop the walk, which goes on behind it as
\* behind any other chunk.
C5_ShortChunkSkipped ==
    [][(pc = "dispatch" /\ TooShort(chunk_type, data))
       => /\ out' = out
          /\ pc' = "read_length" /\ stop' = "None" /\ exit_code' = None
          /\ pos' = iter_start + 12 + length
          /\ UNCHANGED <<rest, more, nread, chunks_found>>]_vars

C5_Witness ==
    /\ pc = "read_length" /\ nread = 2
    /\ pos = 8 + (12 + 8) + (12 + 9)
    /\ chunk_lines(out) = <<[line |-> "pHYs chunk", x |-> 72, y |-> 72,
                             unit |-> "meter"]>>

\* C6: the transparency payload is set on the encoder only for the color
\* types Grayscale, Rgb and Indexed.
C6_TrnsOnlyWithoutAlpha ==
    (encoder # None /\ Unwrap(encoder).trns # None)
    => Unwrap(encoder).color \in {"Grayscale", "Rgb", "Indexed"}

\* C7 as claimed: for a tEXt chunk with a 0x00 byte, the keyword printed is
\* exactly the bytes before the first 0x00 and the text printed exactly the
\* bytes behind it.
C7_TextIsExactBytes ==
    [][(pc = "dispatch" /\ chunk_type = tEXt /\ ~NoNull(data))
       => LET k == FirstNull(data)
          IN  /\ Len(out') = Len(out) + 1
              /\ out'[Len(out')].line = "tEXt chunk"
              /\ as_bytes(out'[Len(out')].keyword) = SubSeq(data, 1, k - 1)
              /\ as_bytes(out'[Len(out')].text) = SubSeq(data, k + 1, Len(data))]_vars

IsAscii(b) == \A i \in 1..Len(b) : b[i] < 128

\* C7 as amended: for a tEXt chunk with a 0x00 byte, the keyword printed is
\* the lossy UTF-8 decoding of exactly the bytes before the first 0x00 and
\* the text that of all the bytes behind it; bytes that are all ASCII are
\* printed as they are.
C7_TextSplitAtFirstNull ==
    [][(pc = "dispatch" /\ chunk_type = tEXt /\ ~NoNull(data))
       => LET k == FirstNull(data)
              kw == SubSeq(data, 1, k - 1)
              tx == SubSeq(data, k + 1, Len(data))
          IN  /\ out' = Append(out, [line |-> "tEXt chunk",
                                     keyword |-> from_utf8_lossy(kw),
                                     text |-> from_utf8_lossy(tx)])
              /\ IsAscii(kw) => out'[Len(out')].keyword = kw
              /\ IsAscii(tx) => out'[Len(out')].text = tx]_vars

C7_Witness ==
    \E i \in 1..Len(out) :
        out[i] = [line |-> "tEXt chunk",
                  keyword |-> <<65, 117, 116, 104, 111, 114>>,
                  text |-> <<74, 97, 110, 101>>]

\* The components of a path: its runs of bytes between separators, without
\* the empty ones and the "." ones.
RECURSIVE Runs(_, _, _)
Runs(p, i, cur) ==
    IF i > Len(p) THEN (IF cur = <<>> \/ cur = <<Dot>> THEN <<>> ELSE <<cur>>)
    ELSE IF p[i] = Slash
         THEN (IF cur = <<>> \/ cur = <<Dot>> THEN <<>> ELSE <<cur>>)
              \o Runs(p, i + 1, <<>>)
         ELSE Runs(p, i + 1, Append(cur, p[i]))

Components(p) == Runs(p, 1, <<>>)
IsAbsolute(p) == p # <<>> /\ p[1] = Slash
HasFinalName(p) ==
    Components(p) # <<>> /\ Components(p)[Len(Components(p))] # <<Dot, Dot>>
FinalName(p) == Components(p)[Len(Components(p))]
Directory(p) ==
    <<IsAbsolute(p), SubSeq(Components(p), 1, Len(Components(p)) - 1)>>

\* the name with "-unpeeled" before its extension: the extension starts
\* behind the last '.' that is not the first byte of the name
UnpeeledName(f) ==
    LET dots == {i \in 2..Len(f) : f[i] = Dot}
    IN  IF dots = {} THEN f \o Unpeeled
        ELSE LET k == CHOOSE i \in dots : \A j \in dots : j <= i
             IN  SubSeq(f, 1, k - 1) \o Unpeeled \o <<Dot>>
                 \o SubSeq(f, k + 1, Len(f))

\* C8: create_output_path keeps the directory of the input path and puts
\* "-unpeeled" before the extension of the final component (stem.ext becomes
\* stem-unpeeled.ext, a name without extension becomes name-unpeeled); the
\* output path is never the input path.
C8_OutputPathNaming ==
    pc = "path_done" =>
        LET o == Unwrap(output_path)
        IN  /\ o # input_path
            /\ Components(o) # Components(input_path)
            /\ HasFinalName(input_path)
               => /\ HasFinalName(o)
                  /\ Directory(o) = Directory(input_path)
                  /\ FinalName(o) = UnpeeledName(FinalName(input_path))

C8_Witness ==
    /\ pc = "path_done"
    /\ input_path = Str_dir_photo_png
    /\ Unwrap(output_path)
       = <<100, 105, 114, 47, 112, 104, 111, 116, 111>> \o Unpeeled
         \o <<46, 112, 110, 103>>

\* C9: the walk terminates: an iteration stops the walk or moves the read
\* position on by exactly 12 + length bytes (12 at least), the position
\* never goes back, and the walk ends at IEND or at the end of the file.
C9_WalkTerminates ==
    /\ [][/\ (pc = "dispatch" /\ pc' = "read_length")
             => (pos' = iter_start + 12 + length /\ pos' >= iter_start + 12)
          /\ pc = "read_length" => iter_start' = pos
          /\ pc \in WalkPcs \ {"read_length", "signature"}
             => iter_start' = iter_start
          /\ pos' >= pos
          /\ pc' = "after_loop" => stop' \in ShortStops \cup {"IEND"}]_vars
    /\ <>(pc = "done")

C9_Witness ==
    /\ pc = "read_length" /\ nread = 2
    /\ pos = 8 + 12 + 12

\* C10: a chunk is dispatched and counted as found only once all of its
\* 12 + length bytes are read; a chunk cut in its CRC prints nothing and
\* stops the walk; "No additional metadata chunks found" is printed exactly
\* when no chunk was read completely; the CRC has no part in what is printed.
C10_FoundOnlyWhenComplete ==
    /\ [][/\ (pc = "read_crc" /\ Len(rest) < 4)
             => (out' = out /\ pc' = "after_loop" /\ stop' = "crc"
                 /\ chunks_found' = chunks_found /\ nread' = nread)
          /\ (pc # "dispatch" /\ pc' = "dispatch")
             => (pos' = iter_start' + 12 + length' /\ Len(data') = length'
                 /\ Len(crc_bytes') = 4 /\ nread' = nread + 1)
          /\ pc' # "dispatch" => nread' = nread
          /\ (pc = "dispatch" /\ chunk_type # IEND)
             => out' = out \o detail_lines(chunk_type, data)
          /\ pc = "after_loop" => (HasLine(out', NoChunksLine) <=> nread = 0)]_vars
    /\ [](chunks_found <=> nread > 0)

C10_Witness ==
    /\ pc = "done" /\ stop = "crc"
    /\ nread = 0 /\ ~chunks_found
    /\ pos = iter_start + 8 + length + 2
    /\ HasLine(out, NoChunksLine)
    /\ chunk_lines(out) = <<>>

============================================================================
